---- MODULE Spec2Model ----
(***************************************************************************)
(* Model of energy_dashboard_module.py: the acquisition loop               *)
(* update_dashboard (capture timestamp, five register reads, classify,     *)
(* append to the readings table, publish, sleep), the readings table with  *)
(* its TEXT PRIMARY KEY, and the pure helpers it calls.                    *)
(*                                                                         *)
(* Numbers: every physical quantity is kept as an integer count of         *)
(* Unit-ths (fixed point), so that the divisions of                        *)
(* read_modbus_data_async are computed, not assumed.                       *)
(* Timestamps: the wall clock `now` counts seconds inside one hour; the    *)
(* text the code stores is strftime(now), a sequence of digits, and the    *)
(* table compares these texts as SQLite compares TEXT (byte by byte).      *)
(***************************************************************************)
EXTENDS Integers, Sequences, FiniteSets, TLC

VARIABLES
  config,      \* the dict load_config returned (fixed for the run)
  now,         \* wall clock, whole seconds (what datetime.now() truncates to)
  pc,          \* position of update_dashboard / of the caller
  conn,        \* the sqlite3 connection of update_dashboard: "none" (not yet
               \* created), "open", "uncommitted" (open, an INSERT executed
               \* and not committed), "closed"
  store,       \* rows of table readings, in insertion (rowid) order
  timestamp,   \* local `timestamp` of update_dashboard
  regs,        \* values read_modbus_data_async has read so far in this call
  raws,        \* register contents the device answered with in this call
  reading,     \* locals (voltage, current, power_factor, power, energy)
  anomaly,     \* local `anomaly`
  display,     \* what the placeholder shows: [latest, df]
  errors,      \* "none" | "modbus": st.error emitted by the current cycle's read
  exc,         \* exception that escaped to the caller ("none" while running)
  limit        \* LIMIT of the query whose result display.df holds (-1: none)

vars == <<config, now, pc, conn, store, timestamp, regs, raws, reading,
          anomaly, display, errors, exc, limit>>

----------------------------------------------------------------------------
(* Bounds of the model *)

\* first second of the run (09:58 of the hour + 10 rows of an earlier run)
ClockStart == 608
\* number of seconds the run is followed for
Horizon == 3
\* longest time one register read may take, in seconds
MaxReadDelay == 1
\* longest oversleep of asyncio.sleep, in seconds
MaxJitter == 1
\* largest refresh_rate tried
MaxRefresh == 1
\* rows appended by the store harness
MaxRows == 3
\* largest LIMIT tried by the store harness
MaxLimit == 4
\* largest number tried by the classifier harness
MaxNum == 2

MaxClock == ClockStart + Horizon

----------------------------------------------------------------------------
(* Program constants *)

\* Python's None; every value of the program is >= 0 (unsigned registers)
None == -1
\* number_of_decimals passed to read_register: the driver divides by 10^3
Decimals == 1000
\* fixed-point unit: the number 1 is kept as Unit, the product of the divisors
\* a register value goes through at most (10^3, then 1000)
Unit == Decimals * 1000
\* LIMIT of the history query
HistoryLimit == 10
\* register addresses read, in order
Addresses == <<0, 2, 4, 6, 8>>
\* divisors applied to the five registers
Factors == <<100, 100, 1000, 100, 1000>>

----------------------------------------------------------------------------
(* Pure helpers *)

Min(a, b) == IF a < b THEN a ELSE b

\* variant: minutes and seconds written without zero padding ("%-M:%-S")
strftime_unpadded(t) ==
  LET m == (t \div 60) % 60
      s == t % 60
      digits(n) == IF n < 10 THEN <<n>> ELSE <<n \div 10, n % 10>>
  IN  digits(m) \o digits(s)

\* datetime.now().strftime("%Y-%m-%d %H:%M:%S") for second t of the hour. The
\* date and hour fields are the same text for every t of the window and are
\* left out; minutes and seconds are two zero-padded digits each.
strftime(t) ==
  LET m == (t \div 60) % 60
      s == t % 60
  IN  <<m \div 10, m % 10, s \div 10, s % 10>>

\* SQLite's BINARY collation on TEXT: a < b, byte by byte, a proper prefix first
RECURSIVE TextLess(_, _)
TextLess(a, b) ==
  IF b = <<>> THEN FALSE
  ELSE IF a = <<>> THEN TRUE
  ELSE IF Head(a) # Head(b) THEN Head(a) < Head(b)
  ELSE TextLess(Tail(a), Tail(b))

\* instrument.read_register(addr, 3, signed=False): the 16-bit register value
\* raw with three decimals, i.e. raw / 10^3 (Unit \div Decimals Unit-ths each)
read_register(raw) == raw * (Unit \div Decimals)

\* lines 57-61: the value of register number i (1..5) divided by its factor
Scale(i, raw) == read_register(raw) \div Factors[i]

\* variant: the upper voltage comparison written >= instead of >
detect_anomaly_inclusive(voltage, current, power, cfg) ==
  LET a0 == 0
      a1 == IF voltage >= cfg.anomaly_voltage_high
               \/ voltage < cfg.anomaly_voltage_low THEN 1 ELSE a0
      a2 == IF current > cfg.anomaly_current_high THEN 1 ELSE a1
      a3 == IF power > cfg.anomaly_power_high THEN 1 ELSE a2
  IN  a3

\* detect_anomaly, as the code computes it: three ifs over a local flag
detect_anomaly(voltage, current, power, cfg) ==
  LET a0 == 0
      a1 == IF voltage > cfg.anomaly_voltage_high
               \/ voltage < cfg.anomaly_voltage_low THEN 1 ELSE a0
      a2 == IF current > cfg.anomaly_current_high THEN 1 ELSE a1
      a3 == IF power > cfg.anomaly_power_high THEN 1 ELSE a2
  IN  a3

\* a key missing from the config dict is kept as None; detect_anomaly raises
\* KeyError at the first such key it looks up (anomaly_voltage_low is looked
\* up only when voltage > anomaly_voltage_high is false)
detect_anomaly_raises(voltage, cfg) ==
  \/ cfg.anomaly_voltage_high = None
  \/ (~(voltage > cfg.anomaly_voltage_high) /\ cfg.anomaly_voltage_low = None)
  \/ cfg.anomaly_current_high = None
  \/ cfg.anomaly_power_high = None

\* the tuple store_data binds to the INSERT
Row(ts, r, a) ==
  [timestamp |-> ts, voltage |-> r[1], current |-> r[2], power_factor |-> r[3],
   power |-> r[4], energy |-> r[5], anomaly |-> a]

\* PRIMARY KEY of create_table: is there a row with this timestamp
HasKey(rows, ts) == \E i \in 1..Len(rows) : rows[i].timestamp = ts

\* the INSERT of store_data on a table without the key
Insert(rows, row) == Append(rows, row)

\* number of rows whose timestamp is greater than that of row k
Newer(rows, k) ==
  Cardinality({j \in 1..Len(rows) : TextLess(rows[k].timestamp, rows[j].timestamp)})

\* SELECT * FROM readings ORDER BY timestamp DESC: the row at place i is the
\* one with i - 1 rows newer than it (timestamps are unique, being the key)
OrderByTimestampDesc(rows) ==
  [i \in 1..Len(rows) |->
     rows[CHOOSE k \in 1..Len(rows) : Newer(rows, k) = i - 1]]

\* variant: ORDER BY timestamp ASC
read_sql_query_asc(rows, n) ==
  LET d == OrderByTimestampDesc(rows)
      a == [i \in 1..Len(d) |-> d[Len(d) + 1 - i]]
  IN  SubSeq(a, 1, Min(n, Len(rows)))

\* variant: no ORDER BY, rows come back in rowid order
read_sql_query_unordered(rows, n) == SubSeq(rows, 1, Min(n, Len(rows)))

\* pd.read_sql_query("... ORDER BY timestamp DESC LIMIT n", conn)
read_sql_query(rows, n) == SubSeq(OrderByTimestampDesc(rows), 1, Min(n, Len(rows)))

----------------------------------------------------------------------------
(* Environment of the acquisition loop *)

\* thresholds, in Unit-ths: the example configuration (250, 200, 10, 2000), and
\* one whose voltage band [0, 0.25] the device values below straddle
Thresholds ==
  { [anomaly_voltage_high |-> 250 * Unit, anomaly_voltage_low |-> 200 * Unit,
     anomaly_current_high |-> 10 * Unit, anomaly_power_high |-> 2000 * Unit],
    [anomaly_voltage_high |-> Unit \div 4, anomaly_voltage_low |-> 0,
     anomaly_current_high |-> 10 * Unit, anomaly_power_high |-> 2000 * Unit] }

\* the configurations load_config may return
Configs ==
  { [refresh_rate |-> r, anomaly_voltage_high |-> t.anomaly_voltage_high,
     anomaly_voltage_low |-> t.anomaly_voltage_low,
     anomaly_current_high |-> t.anomaly_current_high,
     anomaly_power_high |-> t.anomaly_power_high] :
       r \in 0..MaxRefresh, t \in Thresholds }

\* register contents the device may answer with, per register read (1..5)
DeviceValues == <<{0, 25000, 25001}, {500}, {950}, {22000}, {1500}>>

NoReading == <<None, None, None, None, None>>
NoDisplay == [latest |-> <<>>, df |-> <<>>]

\* rows an earlier run of the program left in energy_data.db: one per second
\* for the HistoryLimit seconds before ClockStart
PriorRows(cfg) ==
  [i \in 1..HistoryLimit |->
     LET r == [k \in 1..5 |-> Scale(k, CHOOSE v \in DeviceValues[k] : TRUE)]
     IN  Row(strftime(ClockStart - HistoryLimit - 1 + i), r,
             detect_anomaly(r[1], r[2], r[4], cfg))]

----------------------------------------------------------------------------
(* The acquisition loop: update_dashboard *)

Init ==
  /\ config \in Configs
  /\ now = ClockStart
  /\ pc = "start"
  /\ conn = "none"
  /\ store \in {<<>>, PriorRows(config)}
  /\ timestamp = <<>>
  /\ regs = <<>>
  /\ raws = <<>>
  /\ reading = NoReading
  /\ anomaly = None
  /\ display = NoDisplay
  /\ errors = "none"
  /\ exc = "none"
  /\ limit = None

\* variant: create_table drops the table before creating it
OpenRecreate ==
  /\ pc = "start"
  /\ conn' = "open"
  /\ store' = <<>>
  /\ pc' = "top"
  /\ UNCHANGED <<raws, config, now, timestamp, regs, reading, anomaly,
                 display, errors, exc, limit>>

\* lines 86-87: create_connection, create_table (CREATE TABLE IF NOT EXISTS)
Open ==
  /\ pc = "start"
  /\ conn' = "open"
  /\ pc' = "top"
  /\ UNCHANGED <<raws, config, now, store, timestamp, regs, reading, anomaly,
                 display, errors, exc, limit>>

\* line 90, and the call of read_modbus_data_async of line 91
CaptureTimestamp ==
  /\ pc = "top"
  /\ timestamp' = strftime(now)
  /\ regs' = <<>>
  /\ raws' = <<>>
  /\ errors' = "none"
  /\ pc' = "read"
  /\ UNCHANGED <<config, now, conn, store, reading, anomaly, display, exc, limit>>

\* lines 57-62 and 91: one register read succeeds; after the fifth the tuple is
\* returned and unpacked into the locals of update_dashboard
ReadRegisterOk ==
  /\ pc = "read"
  /\ Len(regs) < Len(Addresses)
  /\ \E raw \in DeviceValues[Len(regs) + 1], d \in 0..MaxReadDelay :
       /\ now + d <= MaxClock
       /\ now' = now + d
       /\ regs' = Append(regs, Scale(Len(regs) + 1, raw))
       /\ raws' = Append(raws, raw)
  /\ IF Len(regs') = Len(Addresses)
       THEN reading' = regs' /\ pc' = "check"
       ELSE UNCHANGED <<reading, pc>>
  /\ UNCHANGED <<config, conn, store, timestamp, anomaly, display, errors, exc, limit>>

\* variant: the except clause returns the values read before the failure
ReadRegisterFailPartial ==
  /\ pc = "read"
  /\ Len(regs) < Len(Addresses)
  /\ \E d \in 0..MaxReadDelay :
       /\ now + d <= MaxClock
       /\ now' = now + d
  /\ errors' = "modbus"
  /\ reading' = [k \in 1..5 |-> IF k <= Len(regs) THEN regs[k] ELSE None]
  /\ pc' = "check"
  /\ UNCHANGED <<raws, config, conn, store, timestamp, regs, anomaly, display, exc, limit>>

\* variant: no try/except around the register reads
ReadRegisterFailRaise ==
  /\ pc = "read"
  /\ Len(regs) < Len(Addresses)
  /\ exc' = "ModbusException"
  /\ pc' = "raised"
  /\ UNCHANGED <<raws, config, now, conn, store, timestamp, regs, reading, anomaly,
                 display, errors, limit>>

\* lines 63-65 and 91: a register read raises; st.error, five None
ReadRegisterFail ==
  /\ pc = "read"
  /\ Len(regs) < Len(Addresses)
  /\ \E d \in 0..MaxReadDelay :
       /\ now + d <= MaxClock
       /\ now' = now + d
  /\ errors' = "modbus"
  /\ reading' = NoReading
  /\ pc' = "check"
  /\ UNCHANGED <<raws, config, conn, store, timestamp, regs, anomaly, display, exc, limit>>

\* variant: the container is refreshed before store_data is called
DetectAnomalyThenPublish ==
  /\ pc = "check"
  /\ reading[1] # None
  /\ ~detect_anomaly_raises(reading[1], config)
  /\ anomaly' = detect_anomaly(reading[1], reading[2], reading[4], config)
  /\ pc' = "publish"
  /\ UNCHANGED <<raws, config, now, conn, store, timestamp, regs, reading, display,
                 errors, exc, limit>>

\* variant: the flag, once set, stays set for the later cycles
DetectAnomalyLatching ==
  /\ pc = "check"
  /\ reading[1] # None
  /\ ~detect_anomaly_raises(reading[1], config)
  /\ anomaly' = IF anomaly = 1 THEN 1
                ELSE detect_anomaly(reading[1], reading[2], reading[4], config)
  /\ pc' = "store"
  /\ UNCHANGED <<raws, config, now, conn, store, timestamp, regs, reading, display,
                 errors, exc, limit>>

\* lines 93-94: voltage is not None; detect_anomaly
DetectAnomaly ==
  /\ pc = "check"
  /\ reading[1] # None
  /\ ~detect_anomaly_raises(reading[1], config)
  /\ anomaly' = detect_anomaly(reading[1], reading[2], reading[4], config)
  /\ pc' = "store"
  /\ UNCHANGED <<raws, config, now, conn, store, timestamp, regs, reading, display,
                 errors, exc, limit>>

\* variant: a failed read is retried at once (continue before the sleep)
SkipCycleRetry ==
  /\ pc = "check"
  /\ reading[1] = None
  /\ pc' = "top"
  /\ UNCHANGED <<raws, config, now, conn, store, timestamp, regs, reading, anomaly,
                 display, errors, exc, limit>>

\* variant: line 93 written "if voltage:", so that 0.0 skips the body too
SkipCycleTruthy ==
  /\ pc = "check"
  /\ (reading[1] = None \/ reading[1] = 0)
  /\ pc' = "sleep"
  /\ UNCHANGED <<raws, config, now, conn, store, timestamp, regs, reading, anomaly,
                 display, errors, exc, limit>>

\* line 93: voltage is None; the body of the if is skipped
SkipCycle ==
  /\ pc = "check"
  /\ reading[1] = None
  /\ pc' = "sleep"
  /\ UNCHANGED <<raws, config, now, conn, store, timestamp, regs, reading, anomaly,
                 display, errors, exc, limit>>

\* variant: INSERT OR REPLACE
StoreDataReplace ==
  /\ pc = "store"
  /\ LET kept == SelectSeq(store, LAMBDA r : r.timestamp # timestamp)
     IN  store' = Insert(kept, Row(timestamp, reading, anomaly))
  /\ pc' = "publish"
  /\ UNCHANGED <<raws, config, now, conn, timestamp, regs, reading, anomaly, display,
                 errors, exc, limit>>

\* variant: the IntegrityError is caught and ignored inside store_data
StoreDataSwallow ==
  /\ pc = "store"
  /\ store' = IF HasKey(store, timestamp) THEN store
              ELSE Insert(store, Row(timestamp, reading, anomaly))
  /\ pc' = "publish"
  /\ UNCHANGED <<raws, config, now, conn, timestamp, regs, reading, anomaly, display,
                 errors, exc, limit>>

\* variant: the loop catches the IntegrityError and goes on to the sleep
StoreDataLogAndContinue ==
  /\ pc = "store"
  /\ IF HasKey(store, timestamp)
       THEN /\ exc' = "IntegrityError"
            /\ pc' = "sleep"
            /\ UNCHANGED store
       ELSE /\ store' = Insert(store, Row(timestamp, reading, anomaly))
            /\ pc' = "publish"
            /\ UNCHANGED exc
  /\ UNCHANGED <<raws, config, now, conn, timestamp, regs, reading, anomaly, display,
                 errors, limit>>

\* line 95: store_data. The INSERT of a timestamp the table holds raises
\* sqlite3.IntegrityError, which nothing in update_dashboard or main catches
StoreData ==
  /\ pc = "store"
  /\ IF HasKey(store, timestamp)
       THEN /\ exc' = "IntegrityError"
            /\ pc' = "raised"
            /\ UNCHANGED store
       ELSE /\ store' = Insert(store, Row(timestamp, reading, anomaly))
            /\ pc' = "publish"
            /\ UNCHANGED exc
  /\ UNCHANGED <<raws, config, now, conn, timestamp, regs, reading, anomaly, display,
                 errors, limit>>

\* lines 97-116: the metrics, the warning, the query and the chart
Publish ==
  /\ pc = "publish"
  /\ display' = [latest |-> Row(timestamp, reading, anomaly),
                 df |-> read_sql_query(store, HistoryLimit)]
  /\ limit' = HistoryLimit
  /\ pc' = "sleep"
  /\ UNCHANGED <<raws, config, now, conn, store, timestamp, regs, reading, anomaly,
                 errors, exc>>

\* line 118: asyncio.sleep(refresh_rate) returns after at least that long
Sleep ==
  /\ pc = "sleep"
  /\ config.refresh_rate # None
  /\ \E j \in 0..MaxJitter :
       /\ now + config.refresh_rate + j <= MaxClock
       /\ now' = now + config.refresh_rate + j
  /\ pc' = "top"
  /\ UNCHANGED <<raws, config, conn, store, timestamp, regs, reading, anomaly,
                 display, errors, exc, limit>>

Next ==
  \/ Open
  \/ CaptureTimestamp
  \/ ReadRegisterOk
  \/ ReadRegisterFail
  \/ DetectAnomaly
  \/ SkipCycle
  \/ StoreData
  \/ Publish
  \/ Sleep

Spec == Init /\ [][Next]_vars

----------------------------------------------------------------------------
(* The readings table on its own: a caller that appends rows with any        *)
(* timestamps, in any order, and runs the history query with any LIMIT.      *)

StoreConfig == CHOOSE c \in Configs : TRUE

\* what the caller did last: nothing or an append ("caller"), a query
\* ("queried"), the same query again with no append in between ("requeried")
CallerStates == {"caller", "queried", "requeried"}

InitStore ==
  /\ config = StoreConfig
  /\ now = ClockStart
  /\ pc = "caller"
  /\ conn = "open"
  /\ store = <<>>
  /\ timestamp = <<>>
  /\ regs = <<>>
  /\ raws = <<>>
  /\ reading = [k \in 1..5 |-> Scale(k, CHOOSE v \in DeviceValues[k] : TRUE)]
  /\ anomaly = None
  /\ display = NoDisplay
  /\ errors = "none"
  /\ exc = "none"
  /\ limit = None

\* store_data(conn, timestamp, ..., anomaly), lines 77-83, called with any
\* timestamp of the window and either flag
CallStoreData ==
  /\ pc \in CallerStates
  /\ Len(store) < MaxRows
  /\ \E t \in ClockStart..MaxClock, a \in {0, 1} :
       IF HasKey(store, strftime(t))
         THEN /\ exc' = "IntegrityError"
              /\ UNCHANGED <<store, limit, pc>>
         ELSE /\ store' = Insert(store, Row(strftime(t), reading, a))
              /\ exc' = "none"
              /\ limit' = None
              /\ pc' = "caller"
  /\ UNCHANGED <<raws, config, now, conn, timestamp, regs, reading, anomaly,
                 display, errors>>

\* variant: the query deletes the rows it returns
CallQueryConsume ==
  /\ pc \in CallerStates
  /\ \E n \in 0..MaxLimit :
       /\ limit' = n
       /\ pc' = IF limit = n THEN "requeried" ELSE "queried"
       /\ display' = [display EXCEPT !.df = read_sql_query(store, n)]
       /\ store' = SelectSeq(store, LAMBDA r :
                     \A i \in 1..Len(read_sql_query(store, n)) :
                       read_sql_query(store, n)[i] # r)
  /\ UNCHANGED <<raws, config, now, conn, timestamp, regs, reading,
                 anomaly, errors, exc>>

\* the query of line 109 with LIMIT n
CallQuery ==
  /\ pc \in CallerStates
  /\ \E n \in 0..MaxLimit :
       /\ limit' = n
       /\ pc' = IF limit = n THEN "requeried" ELSE "queried"
       /\ display' = [display EXCEPT !.df = read_sql_query(store, n)]
  /\ UNCHANGED <<raws, config, now, conn, store, timestamp, regs, reading,
                 anomaly, errors, exc>>

NextStore ==
  \/ CallStoreData
  \/ CallQuery

SpecStore == InitStore /\ [][NextStore]_vars

----------------------------------------------------------------------------
(* detect_anomaly on its own: every combination of three values and four     *)
(* thresholds from 0..MaxNum, classified by the loop's own step.             *)

InitClassify ==
  /\ config \in [refresh_rate : {0}, anomaly_voltage_high : 0..MaxNum,
                 anomaly_voltage_low : 0..MaxNum,
                 anomaly_current_high : 0..MaxNum,
                 anomaly_power_high : 0..MaxNum]
  /\ now = ClockStart
  /\ pc = "check"
  /\ conn = "open"
  /\ store = <<>>
  /\ timestamp = strftime(ClockStart)
  /\ regs = <<>>
  /\ raws = <<>>
  /\ \E v \in 0..MaxNum, c \in 0..MaxNum, p \in 0..MaxNum :
       reading = <<v, c, 0, p, 0>>
  /\ anomaly = None
  /\ display = NoDisplay
  /\ errors = "none"
  /\ exc = "none"
  /\ limit = None

NextClassify == DetectAnomaly

SpecClassify == InitClassify /\ [][NextClassify]_vars

----------------------------------------------------------------------------
(* Properties *)

\* rows in rowid order carry strictly increasing timestamp texts
Increasing(rows) ==
  \A i, j \in 1..Len(rows) :
    i < j => TextLess(rows[i].timestamp, rows[j].timestamp)

\* C1: no partial reading is persisted. When a register read of the cycle has
\* failed, the five locals are all None, whatever was read before the failure,
\* and until the next cycle begins the table and the display do not change;
\* the table changes only by appending the row built from five successful
\* reads of the current cycle.
NoPartialReading ==
  [][ /\ errors' = "modbus" => reading' = NoReading
      /\ errors = "modbus" => store' = store /\ display' = display
      /\ store' # store =>
           /\ errors = "none"
           /\ Len(regs) = Len(Addresses)
           /\ store' = Append(store, Row(timestamp, regs, anomaly)) ]_vars

\* a cycle whose read failed after two registers had been read, now asleep
PartialReadDropped ==
  /\ pc = "sleep"
  /\ errors = "modbus"
  /\ Len(regs) = 2
  /\ reading = NoReading

\* C2: a device failure is recoverable. From the failed read until the next
\* cycle begins the table is unchanged and no exception escapes; the failed
\* cycle goes from the check straight to the sleep, and the next cycle starts
\* only out of that sleep, at least refresh_rate seconds later.
DeviceFailureRecoverable ==
  [][ errors = "modbus" =>
        /\ store' = store
        /\ pc' # "raised" /\ exc' = "none"
        /\ pc = "check" => pc' = "sleep"
        /\ pc' = "read" => pc = "top"
        /\ (pc' = "top" /\ pc # "top") =>
             pc = "sleep" /\ now' >= now + config.refresh_rate ]_vars

\* the loop is back at the top of the next cycle after a failed one, with the
\* rows of earlier cycles still in the table
RecoveredFromFailure ==
  /\ pc = "top"
  /\ errors = "modbus"
  /\ Len(store) > 0
  /\ display # NoDisplay

\* C3: detect_anomaly returns 1 exactly when voltage > high or voltage < low or
\* current > current_high or power > power_high, and 0 otherwise; a value
\* equal to its threshold does not flag by itself, the next value beyond does.
ClassifierExact ==
  pc = "store" =>
    LET v == reading[1]
        c == reading[2]
        p == reading[4]
        flagged == \/ v > config.anomaly_voltage_high
                   \/ v < config.anomaly_voltage_low
                   \/ c > config.anomaly_current_high
                   \/ p > config.anomaly_power_high
    IN  /\ anomaly = IF flagged THEN 1 ELSE 0
        /\ ( /\ v = config.anomaly_voltage_high
             /\ v >= config.anomaly_voltage_low
             /\ c <= config.anomaly_current_high
             /\ p <= config.anomaly_power_high ) => anomaly = 0
        /\ v = config.anomaly_voltage_high + 1 => anomaly = 1
        /\ v = config.anomaly_voltage_low - 1 => anomaly = 1
        /\ c = config.anomaly_current_high + 1 => anomaly = 1
        /\ p = config.anomaly_power_high + 1 => anomaly = 1

\* every value exactly at its threshold, classified 0
AtThresholdsNotFlagged ==
  /\ pc = "store"
  /\ reading[1] = config.anomaly_voltage_high
  /\ reading[1] = config.anomaly_voltage_low
  /\ reading[2] = config.anomaly_current_high
  /\ reading[4] = config.anomaly_power_high
  /\ anomaly = 0

\* C4: store_data with a timestamp the table already holds fails and leaves
\* the table as it was.
DuplicateRejected ==
  [][ (pc = "store" /\ HasKey(store, timestamp)) =>
        /\ store' = store
        /\ exc' = "IntegrityError" ]_vars

\* a rejected append whose values differ from those of the row it collided with
DuplicateKeptOriginal ==
  /\ exc = "IntegrityError"
  /\ \E i \in 1..Len(store) :
       /\ store[i].timestamp = timestamp
       /\ store[i].voltage # reading[1]
       /\ store[i] # Row(timestamp, reading, anomaly)

\* C5: a failed append is not swallowed. It ends update_dashboard with the
\* exception, the display is not touched by that cycle and nothing runs
\* afterwards; a failed device read never ends update_dashboard.
AppendFailureSurfaced ==
  [][ /\ (pc = "store" /\ HasKey(store, timestamp)) =>
           /\ pc' = "raised"
           /\ exc' = "IntegrityError"
           /\ display' = display
      /\ pc = "raised" => FALSE
      /\ pc' = "raised" => errors' = "none" /\ exc' # "none"
      /\ errors' = "modbus" => pc' # "raised" /\ exc' = "none" ]_vars

\* the exception escaped in a run that had published an earlier reading
AppendFailureEscaped ==
  /\ pc = "raised"
  /\ exc = "IntegrityError"
  /\ display # NoDisplay
  /\ display.latest # Row(timestamp, reading, anomaly)

\* C6: the rows of the table, in the order they were appended, carry strictly
\* increasing timestamps; the timestamp of a cycle is the text of a second
\* the clock showed no later than the device read.
AppendsStrictlyIncreasing ==
  /\ Increasing(store)
  /\ pc \in {"read", "check", "store", "publish"} =>
       \E t \in ClockStart..now : timestamp = strftime(t)

\* two appends of one run in consecutive seconds with refresh_rate 0, across
\* the change from ..:09 to ..:10
ConsecutiveSecondsAppended ==
  /\ config.refresh_rate = 0
  /\ Len(store) = 2
  /\ store[1].timestamp = strftime(ClockStart + 1)
  /\ store[2].timestamp = strftime(ClockStart + 2)

\* C7 as stated: update_dashboard never stops on its own
LoopNeverTerminates == pc # "raised"

\* C7, amended: update_dashboard stops on its own only when store_data raises
\* on a timestamp the table already holds. Short of that it is never stuck:
\* at every position the step that leads on is enabled (the sleep as long as
\* it fits in the window), so the sleep of every cycle, successful or failed,
\* is followed by the timestamp capture and register reads of the next.
LoopStopsOnlyOnFailedAppend ==
  /\ pc = "raised" => exc = "IntegrityError" /\ HasKey(store, timestamp)
  /\ pc = "start" => ENABLED Open
  /\ pc = "top" => ENABLED CaptureTimestamp
  /\ pc = "read" => ENABLED ReadRegisterOk /\ ENABLED ReadRegisterFail
  /\ pc = "check" => ENABLED (DetectAnomaly \/ SkipCycle)
  /\ pc = "store" => ENABLED StoreData
  /\ pc = "publish" => ENABLED Publish
  /\ (pc = "sleep" /\ now + config.refresh_rate <= MaxClock) => ENABLED Sleep
  /\ pc \in {"start", "top", "read", "check", "store", "publish", "sleep", "raised"}

\* a register has been read in the cycle that follows a stored and published one
NextCycleReading ==
  /\ pc = "read"
  /\ Len(regs) = 1
  /\ Len(store) = 1
  /\ display # NoDisplay
  /\ now > ClockStart

\* C8: at the end of a successful cycle the display holds the reading of the
\* cycle and the at most HistoryLimit rows with the greatest timestamps,
\* newest first, the row just appended being the first of them.
PublishesRecentHistory ==
  (pc = "sleep" /\ errors = "none") =>
    LET df == display.df
        latest == Row(timestamp, reading, anomaly)
    IN  /\ display.latest = latest
        /\ store[Len(store)] = latest
        /\ Len(df) = Min(HistoryLimit, Len(store))
        /\ df[1] = latest
        /\ \A i \in 1..Len(df) : \E k \in 1..Len(store) : store[k] = df[i]
        /\ \A i, j \in 1..Len(df) :
             i < j => TextLess(df[j].timestamp, df[i].timestamp)
        /\ \A k \in 1..Len(store) :
             (\A i \in 1..Len(df) : df[i] # store[k]) =>
               TextLess(store[k].timestamp, df[Len(df)].timestamp)

\* a successful cycle on a table of more than HistoryLimit rows
HistoryTruncated ==
  /\ pc = "sleep"
  /\ errors = "none"
  /\ Len(store) > HistoryLimit + 1
  /\ Len(display.df) = HistoryLimit

\* C9: after appends in increasing timestamp order to an empty table, the
\* query with LIMIT n returns the n newest rows, newest first (all k rows,
\* reversed, when n = k), and never more than n rows.
AppendThenQuery ==
  (limit # None /\ Increasing(store)) =>
    LET df == display.df
        k == Len(store)
    IN  /\ Len(df) = Min(limit, k)
        /\ Len(df) <= limit
        /\ \A i \in 1..Len(df) : df[i] = store[k + 1 - i]

\* three rows appended in increasing order and queried with LIMIT 3
AllRowsReversed ==
  /\ limit = 3
  /\ Len(store) = 3
  /\ Increasing(store)
  /\ Len(display.df) = 3
  /\ store[1].anomaly # store[3].anomaly

----------------------------------------------------------------------------
(* Shutdown *)

\* C12, as stated: the connection is opened once, before the first register
\* read, stays open while the loop runs, and has been closed whenever
\* update_dashboard has stopped.
StoreLifecycle ==
  /\ pc = "start" => conn = "none"
  /\ pc \in {"top", "read", "check", "store", "publish", "sleep"} => conn = "open"
  /\ pc = "raised" => conn = "closed"

\* A stop signal. Neither update_dashboard nor main installs a handler, and
\* the loop of line 89 tests no flag: the signal reaches the program as an
\* exception raised at whatever statement the loop has reached. Inside
\* store_data that may be after the INSERT of lines 79-82 and before the
\* commit of line 83.
StopSignal ==
  /\ pc \in {"top", "read", "check", "store", "publish", "sleep"}
  /\ pc' = "stopped"
  /\ exc' = "KeyboardInterrupt"
  /\ conn' \in IF pc = "store" /\ ~HasKey(store, timestamp)
                 THEN {conn, "uncommitted"} ELSE {conn}
  /\ UNCHANGED <<config, now, store, timestamp, regs, raws, reading, anomaly,
                 display, errors, limit>>

NextStop ==
  \/ Next
  \/ StopSignal

SpecStop == Init /\ [][NextStop]_vars

\* C11, as stated: a stop signal ends update_dashboard only between cycles,
\* with the cycle in flight finished and the next sleep not entered, and it
\* leaves no INSERT uncommitted.
CancellationClean ==
  [][ pc' = "stopped" => pc \in {"top", "sleep"} /\ conn' # "uncommitted" ]_vars

----------------------------------------------------------------------------
(* Startup: main, load_config, setup_modbus *)

\* `config` before load_config has returned
NoConfig ==
  [serial |-> None, refresh_rate |-> None, anomaly_voltage_high |-> None,
   anomaly_voltage_low |-> None, anomaly_current_high |-> None,
   anomaly_power_high |-> None]

\* what config.json may hold when it parses: every key (serial stands for
\* the seven keys setup_modbus looks up), or all keys but one
Documents ==
  LET full == { [serial |-> 1, refresh_rate |-> c.refresh_rate,
                 anomaly_voltage_high |-> c.anomaly_voltage_high,
                 anomaly_voltage_low |-> c.anomaly_voltage_low,
                 anomaly_current_high |-> c.anomaly_current_high,
                 anomaly_power_high |-> c.anomaly_power_high] : c \in Configs }
      base == CHOOSE d \in full : d.refresh_rate = 0
  IN  full \cup { [base EXCEPT ![k] = None] : k \in DOMAIN base }

LacksKey(cfg) == \E k \in DOMAIN cfg : cfg[k] = None

InitStartup ==
  /\ config = NoConfig
  /\ now = ClockStart
  /\ pc = "main"
  /\ conn = "none"
  /\ store = <<>>
  /\ timestamp = <<>>
  /\ regs = <<>>
  /\ raws = <<>>
  /\ reading = NoReading
  /\ anomaly = None
  /\ display = NoDisplay
  /\ errors = "none"
  /\ exc = "none"
  /\ limit = None

\* lines 11-21 and 123: the file is missing or is not JSON (st.error and
\* st.stop()), or it parses and the dict is returned as it is
LoadConfig ==
  /\ pc = "main"
  /\ \E outcome \in {"FileNotFoundError", "JSONDecodeError", "loaded"} :
       IF outcome = "loaded"
         THEN /\ config' \in Documents
              /\ pc' = "setup"
              /\ UNCHANGED errors
         ELSE /\ errors' = "config"
              /\ pc' = "exited"
              /\ UNCHANGED config
  /\ UNCHANGED <<now, conn, store, timestamp, regs, raws, reading, anomaly,
                 display, exc, limit>>

\* lines 23-34 and 124: a key setup_modbus looks up is missing (KeyError
\* caught, st.error and st.stop()), or the instrument is returned
SetupModbus ==
  /\ pc = "setup"
  /\ IF config.serial = None
       THEN errors' = "modbus_init" /\ pc' = "exited"
       ELSE pc' = "start" /\ UNCHANGED errors
  /\ UNCHANGED <<config, now, conn, store, timestamp, regs, raws, reading,
                 anomaly, display, exc, limit>>

\* line 94 with a threshold key missing: KeyError out of detect_anomaly
DetectAnomalyKeyError ==
  /\ pc = "check"
  /\ reading[1] # None
  /\ detect_anomaly_raises(reading[1], config)
  /\ exc' = "KeyError"
  /\ pc' = "raised"
  /\ UNCHANGED <<config, now, conn, store, timestamp, regs, raws, reading,
                 anomaly, display, errors, limit>>

\* line 118 with refresh_rate missing: KeyError
SleepKeyError ==
  /\ pc = "sleep"
  /\ config.refresh_rate = None
  /\ exc' = "KeyError"
  /\ pc' = "raised"
  /\ UNCHANGED <<config, now, conn, store, timestamp, regs, raws, reading,
                 anomaly, display, errors, limit>>

NextStartup ==
  \/ LoadConfig
  \/ SetupModbus
  \/ Next
  \/ DetectAnomalyKeyError
  \/ SleepKeyError

SpecStartup == InitStartup /\ [][NextStartup]_vars

\* C13, as stated: when the file is missing or malformed, or the document
\* lacks a required key, the process stops in load_config or setup_modbus:
\* no register is read and no row is appended.
ConfigErrorsFatalAtStartup ==
  LacksKey(config) =>
    /\ pc \notin {"check", "store", "publish", "sleep"}
    /\ raws = <<>>
    /\ errors # "modbus"
    /\ store = <<>>

----------------------------------------------------------------------------
(* Readings and rows *)

\* C14, as stated: after a successful transaction each of the five values is
\* the device's raw register value divided by its factor, 100, 100, 1000, 100,
\* 1000 in register order (value * factor = raw, the number 1 being Unit).
ScalingByFixedFactors ==
  (pc = "check" /\ errors = "none") =>
    /\ Len(raws) = Len(Addresses)
    /\ \A k \in 1..Len(Addresses) :
         reading[k] = raws[k] * (Unit \div Factors[k])

\* C15: the table is append-only. Every step keeps the rows the table holds,
\* in place and unchanged, and the table grows by exactly one row at a
\* store_data that does not raise and by none at any other step.
AppendOnly ==
  [][ /\ Len(store') >= Len(store)
      /\ \A i \in 1..Len(store) : store'[i] = store[i]
      /\ Len(store') = Len(store) + (IF pc = "store" /\ exc' = "none" THEN 1 ELSE 0)
    ]_vars

\* two cycles of this run have appended after the rows of an earlier run
AppendedAfterPriorRows ==
  /\ Len(store) = HistoryLimit + 2
  /\ SubSeq(store, 1, HistoryLimit) = PriorRows(config)

----------------------------------------------------------------------------
(* Order of the steps of a cycle *)

\* C16: the steps of a cycle run one after the other in the order capture,
\* read, classify, append, publish, sleep. Registers are read only after the
\* capture, the append follows the classification of the same reading, the
\* display changes only after the committed append of the cycle, and the next
\* capture follows the sleep (or the opening of the table).
SequentialCycle ==
  [][ /\ pc' = "top" => pc \in {"start", "sleep"}
      /\ pc' = "read" => pc \in {"top", "read"}
      /\ regs' # regs => pc \in {"top", "read"}
      /\ pc' = "check" => pc = "read"
      /\ pc' = "store" =>
           /\ pc = "check"
           /\ anomaly' = detect_anomaly(reading[1], reading[2], reading[4], config)
      /\ store' # store =>
           /\ pc = "store"
           /\ store' = Append(store, Row(timestamp, reading, anomaly))
      /\ pc' = "publish" => pc = "store" /\ store' # store
      /\ display' # display =>
           /\ pc = "publish"
           /\ Len(store) > 0
           /\ store[Len(store)] = Row(timestamp, reading, anomaly)
           /\ display'.latest = store[Len(store)]
      /\ pc' = "sleep" => pc \in {"publish", "check"}
    ]_vars

\* a whole cycle has run and the first register of the next one has been read
SecondCycleUnderWay ==
  /\ pc = "read"
  /\ Len(regs) = 1
  /\ display.latest # <<>>
  /\ Len(store) > 0
  /\ store[Len(store)] = display.latest
  /\ TextLess(display.latest.timestamp, timestamp)

----------------------------------------------------------------------------
(* The anomaly flag of a row *)

\* C17: the flag of every row of the table is 0 or 1 and is detect_anomaly of
\* that row's own voltage, current and power under the configuration, whatever
\* the rows before it hold; and the example reading 235.0 V, 5.0 A, 2200.0 W
\* under thresholds 250, 200, 10, 2000 (here in hundredths) is flagged.
AnomalyDerivedFromRow ==
  /\ \A i \in 1..Len(store) :
       /\ store[i].anomaly \in {0, 1}
       /\ store[i].anomaly =
            detect_anomaly(store[i].voltage, store[i].current, store[i].power,
                           config)
       /\ store[i].anomaly = 1 <=>
            \/ store[i].voltage > config.anomaly_voltage_high
            \/ store[i].voltage < config.anomaly_voltage_low
            \/ store[i].current > config.anomaly_current_high
            \/ store[i].power > config.anomaly_power_high
  /\ detect_anomaly(23500, 500, 220000,
                    [anomaly_voltage_high |-> 25000, anomaly_voltage_low |-> 20000,
                     anomaly_current_high |-> 1000,
                     anomaly_power_high |-> 200000]) = 1

\* this run appended a flagged row and, after it, a row that is not flagged
UnflaggedAfterFlagged ==
  \E i, j \in 1..Len(store) :
    /\ i < j
    /\ ~TextLess(store[i].timestamp, strftime(ClockStart))
    /\ store[i].anomaly = 1
    /\ store[j].anomaly = 0

----------------------------------------------------------------------------
(* What decides the fate of a cycle *)

\* C18: after the device transaction the cycle goes on to classify and append
\* exactly when the transaction did not fail, whatever the values read (a
\* voltage of 0 included); it goes to the sleep exactly when it failed.
SuccessDecidedByTransaction ==
  [][ pc = "check" =>
        IF errors = "none"
          THEN /\ pc' = "store"
               /\ anomaly' = detect_anomaly(reading[1], reading[2], reading[4],
                                            config)
          ELSE /\ pc' = "sleep"
               /\ store' = store
               /\ display' = display
    ]_vars

\* a reading of 0 volts went through the whole cycle
ZeroVoltagePublished ==
  /\ pc = "sleep"
  /\ errors = "none"
  /\ raws[1] = 0
  /\ reading[1] = 0
  /\ Len(store) > 0
  /\ store[Len(store)].voltage = 0
  /\ store[Len(store)].timestamp = timestamp
  /\ display.latest = store[Len(store)]

\* C19: a store_data that finds the timestamp in the table raises and changes
\* neither the table nor the display, and once an exception has been raised
\* update_dashboard takes no further step: no read, no append, no publication.
AcquisitionEndsOnFailedAppend ==
  [][ /\ exc = "none"
      /\ (pc = "store" /\ HasKey(store, timestamp)) =>
           /\ exc' = "IntegrityError"
           /\ pc' = "raised"
           /\ store' = store
           /\ display' = display
    ]_vars

\* the third cycle of a run collided with the second one's timestamp; the two
\* rows committed before are still there
FailedAfterTwoRows ==
  /\ pc = "raised"
  /\ exc = "IntegrityError"
  /\ Len(store) = 2
  /\ store[2].timestamp = timestamp
  /\ TextLess(store[1].timestamp, store[2].timestamp)
  /\ display.latest = store[2]

====
